---------------------------- MODULE Spec2Model ----------------------------
(***************************************************************************)
(* Model of the go-audit daemon's entry point (src/go-audit/audit.go) and  *)
(* of the process-wide logger it uses (src/logger/logger.go).              *)
(*                                                                         *)
(* Strings the code inspects character by character (audit rules, the     *)
(* decimal form of message_type, regular expressions) are sequences of    *)
(* one-character strings, so that strings.Fields, strconv.ParseUint and   *)
(* strconv.Itoa are computed, not assumed.                                 *)
(***************************************************************************)
EXTENDS Integers, Sequences, FiniteSets, TLC

\* Longest `rules` list of a configuration.
MaxRules == 2
\* Longest `filters` list of a configuration (specification SpecFilters).
MaxFilters == 2
\* Number of iterations of the receive loop that are explored.
MaxMsgs == 3

VARIABLES
    pc,           \* position of main()
    config,       \* the loaded configuration (viper), NoConfig before loadConfig
    writer,       \* the *AuditWriter main holds, NilWriter before createOutput
    lOut,         \* where the logger `l` writes: "stdout", or "stderr" after l.SetOutput
    calls,        \* the invocations of the executor, in order, each with its outcome
    rulesErr,     \* the error setRules returned
    filters,      \* the []AuditFilter handed to NewAuditMarshaller
    log,          \* the lines the logger package printed, in order
    exitCode,     \* exit status of the process, Running while it runs
    exitAt,       \* the step of main() that ended the process, "none" while it runs
    iter,         \* number of Receive calls issued
    recv,         \* what the last Receive returned
    received,     \* the messages Receive returned with a nil error and non-nil, in order
    consumed,     \* the messages handed to marshaller.Consume, in order
    consumeErr    \* what the last Consume surfaced to its caller

vars == << pc, config, writer, lOut, calls, rulesErr, filters, log, exitCode,
           exitAt, iter, recv, received, consumed, consumeErr >>

---------------------------------------------------------------------------
(* Strings *)

Digits == <<"0", "1", "2", "3", "4", "5", "6", "7", "8", "9">>

IsDigit(c) == \E i \in 1..10 : Digits[i] = c

DigitVal(c) == (CHOOSE i \in 1..10 : Digits[i] = c) - 1

\* unicode.IsSpace on the characters of the model's alphabet
IsSpace(c) == c \in {" ", "\t"}

RECURSIVE FieldsFrom(_, _, _)
\* s: the rest of the string, cur: the field being read, acc: the fields read
FieldsFrom(s, cur, acc) ==
    IF s = << >>
    THEN IF cur = << >> THEN acc ELSE Append(acc, cur)
    ELSE IF IsSpace(Head(s))
         THEN FieldsFrom(Tail(s), << >>, IF cur = << >> THEN acc ELSE Append(acc, cur))
         ELSE FieldsFrom(Tail(s), Append(cur, Head(s)), acc)

\* strings.Fields: split around each run of white space, no empty fields
Fields(s) == FieldsFrom(s, << >>, << >>)

RECURSIVE DecValue(_)
DecValue(s) ==
    IF s = << >> THEN 0
    ELSE DecValue(SubSeq(s, 1, Len(s) - 1)) * 10 + DigitVal(s[Len(s)])

\* strconv.ParseUint(s, 10, 64): digits only, no sign, not empty.  Every digit
\* string of the model is shorter than 2^64, so the range error cannot occur.
ParseUint(s) ==
    IF s # << >> /\ \A i \in 1..Len(s) : IsDigit(s[i])
    THEN [err |-> FALSE, v |-> DecValue(s)]
    ELSE [err |-> TRUE, v |-> 0]

RECURSIVE UItoa(_)
UItoa(n) ==
    IF n < 10 THEN << Digits[n + 1] >>
    ELSE UItoa(n \div 10) \o << Digits[(n % 10) + 1] >>

\* strconv.Itoa
Itoa(n) == IF n < 0 THEN <<"-">> \o UItoa(-n) ELSE UItoa(n)

\* Go's conversion uint16(x): the low 16 bits
Uint16(x) == x % 65536

RECURSIVE ParenDepth(_, _)
\* depth of open groups after reading s, -1 once a ")" closes nothing
ParenDepth(s, d) ==
    IF d < 0 \/ s = << >> THEN d
    ELSE ParenDepth(Tail(s), IF Head(s) = "(" THEN d + 1
                             ELSE IF Head(s) = ")" THEN d - 1 ELSE d)

\* regexp.Compile succeeds: over the model's pattern alphabet {a ( )} a pattern
\* compiles exactly when its groups are balanced
RegexCompiles(re) == ParenDepth(re, 0) = 0

---------------------------------------------------------------------------
(* The logger package.  main calls AuditLoggerNew(l, el, nil): sysLog is nil,  *)
(* stdOut is the logger l and stdErr is the logger el, which writes to stderr. *)

SysLogSet == FALSE

Line(stream, level, text, arg) ==
    [stream |-> stream, level |-> level, text |-> text, arg |-> arg]

\* logger.Info: to syslog when there is one, else to stdOut (the logger l,
\* whose output is lo)
Info(lg, lo, text, arg) ==
    IF SysLogSet THEN Append(lg, Line("syslog", "info", text, arg))
    ELSE Append(lg, Line(lo, "info", text, arg))

\* logger.Err: to syslog when there is one, else to stdErr
Err(lg, text, arg) ==
    IF SysLogSet THEN Append(lg, Line("syslog", "err", text, arg))
    ELSE Append(lg, Line("stderr", "err", text, arg))

\* logger.Crit: to syslog when there is one, else to stdErr
Crit(lg, text, arg) ==
    IF SysLogSet THEN Append(lg, Line("syslog", "crit", text, arg))
    ELSE Append(lg, Line("stderr", "crit", text, arg))

---------------------------------------------------------------------------
(* Output construction *)

NilWriter == [sink |-> "nil", attempts |-> 0]

\* NewAuditWriter(sink, attempts)
NewAuditWriter(sink, attempts) == [sink |-> sink, attempts |-> attempts]

\* The first step of createFileOutput that the operating system refuses, "ok"
\* when it refuses none.
FileEnvs == {"ok", "open", "chmod", "user", "group", "uid", "gid", "chown"}

\* createSyslogOutput; dialOk: syslog.Dial succeeds
createSyslogOutput(out, dialOk) ==
    IF out.syslog.attempts < 1
    THEN [writer |-> NilWriter, err |-> "syslog attempts"]
    ELSE IF ~dialOk
    THEN [writer |-> NilWriter, err |-> "syslog dial"]
    ELSE [writer |-> NewAuditWriter("syslog", out.syslog.attempts), err |-> "nil"]

\* createFileOutput; fileEnv: the step on the file that fails
createFileOutput(out, fileEnv) ==
    IF out.file.attempts < 1
    THEN [writer |-> NilWriter, err |-> "file attempts"]
    ELSE IF out.file.mode < 1
    THEN [writer |-> NilWriter, err |-> "file mode"]
    ELSE IF fileEnv # "ok"
    THEN [writer |-> NilWriter, err |-> fileEnv]
    ELSE [writer |-> NewAuditWriter("file", out.file.attempts), err |-> "nil"]

\* createStdOutOutput; lo is the output of the logger l afterwards
createStdOutOutput(out) ==
    IF out.stdout.attempts < 1
    THEN [writer |-> NilWriter, err |-> "stdout attempts", lo |-> "stdout"]
    ELSE [writer |-> NewAuditWriter("stdout", out.stdout.attempts), err |-> "nil",
          lo |-> "stderr"]

\* createOutput without the check of the number of enabled outputs
createOutput_KeepsLast(out, dialOk, fileEnv) ==
    LET s == IF out.syslog.enabled THEN createSyslogOutput(out, dialOk)
             ELSE [writer |-> NilWriter, err |-> "nil"]
        f == IF out.file.enabled THEN createFileOutput(out, fileEnv)
             ELSE [writer |-> s.writer, err |-> "nil"]
        o == IF out.stdout.enabled THEN createStdOutOutput(out)
             ELSE [writer |-> f.writer, err |-> "nil", lo |-> "stdout"]
    IN  IF s.err # "nil" THEN [writer |-> NilWriter, err |-> s.err, lo |-> "stdout"]
        ELSE IF f.err # "nil" THEN [writer |-> NilWriter, err |-> f.err, lo |-> "stdout"]
        ELSE IF o.err # "nil" THEN [writer |-> NilWriter, err |-> o.err, lo |-> o.lo]
        ELSE IF o.writer = NilWriter
        THEN [writer |-> NilWriter, err |-> "No outputs were configured", lo |-> o.lo]
        ELSE [writer |-> o.writer, err |-> "nil", lo |-> o.lo]

\* createOutput: each enabled output is constructed in the order syslog, file,
\* stdout, a construction error returns at once; then the count of enabled
\* outputs is checked, then that there is a writer.
createOutput(out, dialOk, fileEnv) ==
    LET i1 == IF out.syslog.enabled THEN 1 ELSE 0
        s  == IF out.syslog.enabled THEN createSyslogOutput(out, dialOk)
              ELSE [writer |-> NilWriter, err |-> "nil"]
        i2 == IF out.file.enabled THEN i1 + 1 ELSE i1
        f  == IF out.file.enabled THEN createFileOutput(out, fileEnv)
              ELSE [writer |-> s.writer, err |-> "nil"]
        i3 == IF out.stdout.enabled THEN i2 + 1 ELSE i2
        o  == IF out.stdout.enabled THEN createStdOutOutput(out)
              ELSE [writer |-> f.writer, err |-> "nil", lo |-> "stdout"]
    IN  IF s.err # "nil" THEN [writer |-> NilWriter, err |-> s.err, lo |-> "stdout"]
        ELSE IF f.err # "nil" THEN [writer |-> NilWriter, err |-> f.err, lo |-> "stdout"]
        ELSE IF o.err # "nil" THEN [writer |-> NilWriter, err |-> o.err, lo |-> o.lo]
        ELSE IF i3 > 1
        THEN [writer |-> NilWriter, err |-> "Only one output can be enabled at a time",
              lo |-> o.lo]
        ELSE IF o.writer = NilWriter
        THEN [writer |-> NilWriter, err |-> "No outputs were configured", lo |-> o.lo]
        ELSE [writer |-> o.writer, err |-> "nil", lo |-> o.lo]

---------------------------------------------------------------------------
(* Rule installation *)

Auditctl == <<"a", "u", "d", "i", "t", "c", "t", "l">>

\* One invocation of the executor: its arguments, and whether it returned an error
Call(argv, failed) == [argv |-> argv, failed |-> failed]

\* the argv of e("auditctl", "-D")
FlushArgv == << Auditctl, <<"-", "D">> >>

\* the argv of e("auditctl", strings.Fields(v)...)
RuleArgv(v) == << Auditctl >> \o Fields(v)

\* the loop of setRules going on to the next rule after a failed invocation
RECURSIVE addRules_NoStop(_, _, _, _, _, _)
addRules_NoStop(rules, i, failing, cs, lg, lo) ==
    IF i > Len(rules) THEN [calls |-> cs, err |-> [kind |-> "nil", rule |-> 0], log |-> lg]
    ELSE IF rules[i] = << >> THEN addRules_NoStop(rules, i + 1, failing, cs, lg, lo)
    ELSE LET cs2 == Append(cs, Call(RuleArgv(rules[i]), (Len(cs) + 1) \in failing))
         IN  IF cs2[Len(cs2)].failed
             THEN LET rest == addRules_NoStop(rules, i + 1, failing, cs2, lg, lo)
                  IN  [rest EXCEPT !.err = [kind |-> "rule", rule |-> i]]
             ELSE addRules_NoStop(rules, i + 1, failing, cs2,
                                  Info(lg, lo, "Added audit rule #%d", i), lo)

RECURSIVE addRules(_, _, _, _, _, _)
\* the loop `for i, v := range rules` of setRules from index i on.  failing is
\* the executor: the set of its invocations (counted from 1) that return an error.
addRules(rules, i, failing, cs, lg, lo) ==
    IF i > Len(rules) THEN [calls |-> cs, err |-> [kind |-> "nil", rule |-> 0], log |-> lg]
    ELSE IF rules[i] = << >> THEN addRules(rules, i + 1, failing, cs, lg, lo)
    ELSE LET cs2 == Append(cs, Call(RuleArgv(rules[i]), (Len(cs) + 1) \in failing))
         IN  IF cs2[Len(cs2)].failed
             THEN [calls |-> cs2, err |-> [kind |-> "rule", rule |-> i], log |-> lg]
             ELSE addRules(rules, i + 1, failing, cs2,
                           Info(lg, lo, "Added audit rule #%d", i), lo)

\* setRules without the error for an empty rule list
setRules_EmptyIsFine(rules, failing, lg, lo) ==
    IF 1 \in failing
    THEN [calls |-> << Call(FlushArgv, TRUE) >>, err |-> [kind |-> "flush", rule |-> 0],
          log |-> lg]
    ELSE addRules(rules, 1, failing, << Call(FlushArgv, FALSE) >>,
                  Info(lg, lo, "Flushed existing audit rules", 0), lo)

\* setRules(config, e): rules is config.GetStringSlice("rules")
setRules(rules, failing, lg, lo) ==
    IF 1 \in failing
    THEN [calls |-> << Call(FlushArgv, TRUE) >>, err |-> [kind |-> "flush", rule |-> 0],
          log |-> lg]
    ELSE LET lg2 == Info(lg, lo, "Flushed existing audit rules", 0)
         IN  IF Len(rules) # 0
             THEN addRules(rules, 1, failing, << Call(FlushArgv, FALSE) >>, lg2, lo)
             ELSE [calls |-> << Call(FlushArgv, FALSE) >>,
                   err |-> [kind |-> "norules", rule |-> 0], log |-> lg2]

---------------------------------------------------------------------------
(* Filters *)

\* A value of the configuration, as viper hands it over (interface{}): absent,
\* an int, a string, or a value of another type (a bool, a float, a list).
Val(t, i, str) == [t |-> t, i |-> i, s |-> str]
Absent == Val("absent", 0, << >>)
IntVal(n) == Val("int", n, << >>)
StrVal(str) == Val("string", 0, str)
OtherVal == Val("other", 0, << >>)

\* An entry of the `filters` list: a map with the keys it holds, or not a map.
Entry(mt, sc, re) == [isMap |-> TRUE, message_type |-> mt, syscall |-> sc, regex |-> re]
NotAMap == [isMap |-> FALSE, message_type |-> Absent, syscall |-> Absent, regex |-> Absent]

\* The value of the `filters` key: absent (nil), a list, or of another shape.
NoFilters == [shape |-> "nil", items |-> << >>]
FilterList(items) == [shape |-> "list", items |-> items]
FilterScalar == [shape |-> "scalar", items |-> << >>]
FilterMap == [shape |-> "map", items |-> << >>]

\* *regexp.Regexp: nil, or compiled from expr
NilRegex == [set |-> FALSE, expr |-> << >>]
Regexp(expr) == [set |-> TRUE, expr |-> expr]

\* AuditFilter{}: the zero value
ZeroFilter == [MessageType |-> 0, Syscall |-> << >>, Regex |-> NilRegex]

\* case "message_type" of createFilters: the filter afterwards, and the panic
messageTypeCase(af, v) ==
    IF v.t = "string"
    THEN LET fv == ParseUint(v.s)
         IN  IF fv.err THEN [af |-> af, panic |-> "message_type"]
             ELSE [af |-> [af EXCEPT !.MessageType = Uint16(fv.v)], panic |-> "none"]
    ELSE IF v.t = "int"
    THEN [af |-> [af EXCEPT !.MessageType = Uint16(v.i)], panic |-> "none"]
    ELSE [af |-> af, panic |-> "message_type"]

\* case "regex" of createFilters
regexCase(af, v) ==
    IF v.t # "string" THEN [af |-> af, panic |-> "regex"]
    ELSE IF ~RegexCompiles(v.s) THEN [af |-> af, panic |-> "regex"]
    ELSE [af |-> [af EXCEPT !.Regex = Regexp(v.s)], panic |-> "none"]

\* case "syscall" of createFilters
syscallCase(af, v) ==
    IF v.t = "string" THEN [af |-> [af EXCEPT !.Syscall = v.s], panic |-> "none"]
    ELSE IF v.t = "int" THEN [af |-> [af EXCEPT !.Syscall = Itoa(v.i)], panic |-> "none"]
    ELSE [af |-> af, panic |-> "syscall"]

keyCase(af, k, v) ==
    IF k = "message_type" THEN messageTypeCase(af, v)
    ELSE IF k = "regex" THEN regexCase(af, v)
    ELSE syscallCase(af, v)

\* The orders in which `for k, v := range f2` may visit the keys of a map.
KeyOrders ==
    { o \in [1..3 -> {"message_type", "regex", "syscall"}] :
        \A i, j \in 1..3 : i # j => o[i] # o[j] }

RECURSIVE rangeKeys(_, _, _, _)
\* the loop over the keys of one entry, from position n of the order on
rangeKeys(f2, order, n, af) ==
    IF n > Len(order) THEN [af |-> af, panic |-> "none"]
    ELSE IF f2[order[n]].t = "absent" THEN rangeKeys(f2, order, n + 1, af)
    ELSE LET r == keyCase(af, order[n], f2[order[n]])
         IN  IF r.panic # "none" THEN r ELSE rangeKeys(f2, order, n + 1, r.af)

RECURSIVE filterLoop(_, _, _, _, _, _)
\* the loop `for i, f := range ft` of createFilters from index i on.  A value
\* that cannot be parsed is logged under the name of its key before the panic.  The
\* arguments of the closing logger.Info include af.Regex.String(), which
\* dereferences af.Regex: with a nil Regex the evaluation panics.
filterLoop(ft, i, order, fs, lg, lo) ==
    IF i > Len(ft) THEN [filters |-> fs, panic |-> "none", log |-> lg]
    ELSE IF ~ft[i].isMap
    THEN [filters |-> fs, panic |-> "filter",
          log |-> Crit(lg, "Could not parse filter %d, %v", i)]
    ELSE LET r == rangeKeys(ft[i], order, 1, ZeroFilter)
         IN  IF r.panic # "none"
             THEN [filters |-> fs, panic |-> r.panic,
                   log |-> Crit(lg, r.panic, i)]
             ELSE IF ~r.af.Regex.set
             THEN [filters |-> Append(fs, r.af), panic |-> "nil dereference", log |-> lg]
             ELSE filterLoop(ft, i + 1, order, Append(fs, r.af),
                             Info(lg, lo, "Ignoring syscall containing message type", i), lo)

\* createFilters(config): fs is config.Get("filters"), order the order in which
\* the keys of a map are visited.  panic is "none" when the function returns.
createFilters(fs, order, lg, lo) ==
    IF fs.shape = "nil" THEN [filters |-> << >>, panic |-> "none", log |-> lg]
    ELSE IF fs.shape # "list" THEN [filters |-> << >>, panic |-> "none", log |-> lg]
    ELSE filterLoop(fs.items, 1, order, << >>, lg, lo)

---------------------------------------------------------------------------
(* Configurations *)

\* output.*.attempts, and output.file.mode (0644 is 420)
AttemptValues == {0, 3}
ModeValues == {0, 420}

\* A disabled output keeps the defaults of loadConfig: attempts "3" for syslog,
\* nothing (0) for the other keys.
SyslogConfigs ==
    {[enabled |-> FALSE, attempts |-> 3]}
        \cup {[enabled |-> TRUE, attempts |-> a] : a \in AttemptValues}
FileConfigs ==
    {[enabled |-> FALSE, attempts |-> 0, mode |-> 0]}
        \cup {[enabled |-> TRUE, attempts |-> a, mode |-> m] :
                a \in AttemptValues, m \in ModeValues}
StdoutConfigs ==
    {[enabled |-> FALSE, attempts |-> 0]}
        \cup {[enabled |-> TRUE, attempts |-> a] : a \in AttemptValues}

OutputConfigs == [syslog : SyslogConfigs, file : FileConfigs, stdout : StdoutConfigs]

\* The rules "", "-w x" and " "
RuleStrings == { << >>, <<"-", "w", " ", "x">>, <<" ">> }
RuleLists == UNION { [1..n -> RuleStrings] : n \in 0..MaxRules }

\* Values of message_type, syscall and regex
MessageTypeInts == {-1, 0, 1300, 66836}
MessageTypeValues ==
    {Absent, OtherVal, StrVal(<<"1", "x">>)}
        \cup {IntVal(n) : n \in MessageTypeInts}
        \cup {StrVal(Itoa(n)) : n \in MessageTypeInts}
SyscallValues == {Absent, OtherVal, StrVal(<<"2">>), IntVal(2)}
RegexValues == {Absent, OtherVal, StrVal(<<"(", "a", ")">>), StrVal(<<"(", "a">>)}

FilterEntries ==
    {NotAMap} \cup
    {Entry(mt, sc, re) : mt \in MessageTypeValues, sc \in SyscallValues, re \in RegexValues}

\* Entries that precede the last one in the longer lists
LeadingEntries ==
    { Entry(IntVal(1300), StrVal(<<"2">>), StrVal(<<"(", "a", ")">>)),
      Entry(StrVal(Itoa(1300)), IntVal(2), StrVal(<<"(", "a", ")">>)),
      Entry(Absent, Absent, StrVal(<<"(", "a", ")">>)) }

FilterLists ==
    {<< >>} \cup
    UNION { { Append(lead, e) : lead \in [1..n -> LeadingEntries], e \in FilterEntries } :
            n \in 0..(MaxFilters - 1) }

\* The values of `filters` of specification SpecFilters
FilterConfigs == {NoFilters, FilterScalar, FilterMap} \cup {FilterList(l) : l \in FilterLists}

\* The values of `filters` of specification Spec: every shape, and a list of
\* one entry for every way an entry is well-formed or not
MainFilterConfigs ==
    {NoFilters, FilterScalar, FilterMap, FilterList(<< >>), FilterList(<< NotAMap >>)} \cup
    { FilterList(<< e >>) : e \in
        { Entry(IntVal(1300), StrVal(<<"2">>), StrVal(<<"(", "a", ")">>)),
          Entry(StrVal(Itoa(1300)), IntVal(2), StrVal(<<"(", "a", ")">>)),
          Entry(IntVal(1300), StrVal(<<"2">>), Absent),
          Entry(IntVal(-1), Absent, StrVal(<<"(", "a", ")">>)),
          Entry(StrVal(Itoa(-1)), Absent, StrVal(<<"(", "a", ")">>)),
          Entry(OtherVal, Absent, StrVal(<<"(", "a", ")">>)),
          Entry(StrVal(<<"1", "x">>), Absent, StrVal(<<"(", "a", ")">>)),
          Entry(Absent, OtherVal, StrVal(<<"(", "a", ")">>)),
          Entry(Absent, Absent, OtherVal),
          Entry(Absent, Absent, StrVal(<<"(", "a">>)) } }

Configs == [output : OutputConfigs, rules : RuleLists, filters : MainFilterConfigs]

NoConfig == [output |-> [syslog |-> [enabled |-> FALSE, attempts |-> 0],
                         file |-> [enabled |-> FALSE, attempts |-> 0, mode |-> 0],
                         stdout |-> [enabled |-> FALSE, attempts |-> 0]],
             rules |-> << >>, filters |-> NoFilters]

---------------------------------------------------------------------------
(* main *)

\* os.Exit(1) after flag.Usage()
UsageExit == 1
\* the exit status of a Go program that ends in an unrecovered panic
PanicExit == 2
\* spec.md, section 6: the exit status of a startup failure
StartupExit == 1

NilErr == [kind |-> "nil", rule |-> 0]
NoRecv == [err |-> FALSE, msg |-> 0]

Init ==
    /\ pc = "start"
    /\ config = NoConfig
    /\ writer = NilWriter
    /\ lOut = "stdout"
    /\ calls = << >>
    /\ rulesErr = NilErr
    /\ filters = << >>
    /\ log = << >>
    /\ exitCode = 0
    /\ exitAt = "none"
    /\ iter = 0
    /\ recv = NoRecv
    /\ received = << >>
    /\ consumed = << >>
    /\ consumeErr = "nil"

\* The process ends with status code at step `at` of main, lg being the log.
Exit(code, at, lg) ==
    /\ pc' = "exited"
    /\ exitCode' = code
    /\ exitAt' = at
    /\ log' = lg

\* flag.Parse, AuditLoggerNew and the check of --config; the command line
\* either gives --config or gives no flag at all
ParseFlags ==
    /\ pc = "start"
    /\ \E configFile \in {"", "audit.yaml"} :
          IF configFile = ""
          THEN Exit(UsageExit, "flag", Err(log, "A config file must be provided", 0))
          ELSE /\ pc' = "loadConfig"
               /\ UNCHANGED << log, exitCode, exitAt >>
    /\ UNCHANGED << config, writer, lOut, calls, rulesErr, filters, iter, recv,
                    received, consumed, consumeErr >>

\* loadConfig and the check of its error
LoadConfig ==
    /\ pc = "loadConfig"
    /\ \/ /\ Exit(PanicExit, "loadConfig", Crit(log, "%v", 0))
          /\ UNCHANGED config
       \/ /\ config' \in Configs
          /\ pc' = "createOutput"
          /\ UNCHANGED << log, exitCode, exitAt >>
    /\ UNCHANGED << writer, lOut, calls, rulesErr, filters, iter, recv,
                    received, consumed, consumeErr >>

\* createOutput and the check of its error
MainCreateOutput ==
    /\ pc = "createOutput"
    /\ \E dialOk \in BOOLEAN, fileEnv \in FileEnvs :
          LET r == createOutput(config.output, dialOk, fileEnv)
          IN  /\ lOut' = r.lo
              /\ writer' = r.writer
              /\ IF r.err # "nil"
                 THEN Exit(PanicExit, "createOutput", Crit(log, r.err, 0))
                 ELSE /\ pc' = "setRules"
                      /\ UNCHANGED << log, exitCode, exitAt >>
    /\ UNCHANGED << config, calls, rulesErr, filters, iter, recv, received,
                    consumed, consumeErr >>

\* setRules(config, lExec) and the check of its error
MainSetRules ==
    /\ pc = "setRules"
    /\ \E failing \in SUBSET (1..(MaxRules + 1)) :
          LET r == setRules(config.rules, failing, log, lOut)
          IN  /\ calls' = r.calls
              /\ rulesErr' = r.err
              /\ IF r.err.kind # "nil"
                 THEN Exit(PanicExit, "setRules", Crit(r.log, r.err.kind, r.err.rule))
                 ELSE /\ pc' = "netlink"
                      /\ log' = r.log
                      /\ UNCHANGED << exitCode, exitAt >>
    /\ UNCHANGED << config, writer, lOut, filters, iter, recv, received,
                    consumed, consumeErr >>

\* NewNetlinkClient: the socket is opened, or the open fails (SocketError),
\* a startup failure
MainNewNetlinkClient ==
    /\ pc = "netlink"
    /\ \/ /\ pc' = "createFilters"
          /\ UNCHANGED << log, exitCode, exitAt >>
       \/ Exit(StartupExit, "netlink", Crit(log, "SocketError", 0))
    /\ UNCHANGED << config, writer, lOut, calls, rulesErr, filters, iter, recv,
                    received, consumed, consumeErr >>

\* createFilters, NewAuditMarshaller and "Started processing events"
MainCreateFilters ==
    /\ pc = "createFilters"
    /\ \E order \in KeyOrders :
          LET r == createFilters(config.filters, order, log, lOut)
          IN  /\ filters' = r.filters
              /\ IF r.panic # "none"
                 THEN Exit(PanicExit, "createFilters", r.log)
                 ELSE /\ pc' = "receive"
                      /\ log' = Info(r.log, lOut, "Started processing events", 0)
                      /\ UNCHANGED << exitCode, exitAt >>
    /\ UNCHANGED << config, writer, lOut, calls, rulesErr, iter, recv, received,
                    consumed, consumeErr >>

\* nlClient.Receive(): an error, no message (nil), or the next message
Receive ==
    /\ pc = "receive"
    /\ iter < MaxMsgs
    /\ iter' = iter + 1
    /\ \E outcome \in {"err", "nil", "msg"} :
          /\ recv' = [err |-> outcome = "err",
                      msg |-> IF outcome = "msg" THEN iter + 1 ELSE 0]
          /\ received' = IF outcome = "msg" THEN Append(received, iter + 1) ELSE received
    /\ pc' = "received"
    /\ UNCHANGED << config, writer, lOut, calls, rulesErr, filters, log, exitCode,
                    exitAt, consumed, consumeErr >>

\* the loop body without the check for a nil message
HandleReceive_ConsumesNil ==
    /\ pc = "received"
    /\ IF recv.err
       THEN /\ log' = Err(log, "Error during message receive: %+v", 0)
            /\ pc' = "receive"
            /\ UNCHANGED consumed
       ELSE /\ consumed' = Append(consumed, recv.msg)
            /\ pc' = "consuming"
            /\ UNCHANGED log
    /\ UNCHANGED << config, writer, lOut, calls, rulesErr, filters, exitCode,
                    exitAt, iter, recv, received, consumeErr >>

\* the loop body ending the process on a receive error
HandleReceive_ErrIsFatal ==
    /\ pc = "received"
    /\ IF recv.err
       THEN /\ Exit(PanicExit, "receive", Err(log, "Error during message receive: %+v", 0))
            /\ UNCHANGED consumed
       ELSE IF recv.msg = 0
       THEN /\ pc' = "receive"
            /\ UNCHANGED << log, consumed, exitCode, exitAt >>
       ELSE /\ consumed' = Append(consumed, recv.msg)
            /\ pc' = "consuming"
            /\ UNCHANGED << log, exitCode, exitAt >>
    /\ UNCHANGED << config, writer, lOut, calls, rulesErr, filters,
                    iter, recv, received, consumeErr >>

\* The body of the loop after Receive: an error is logged and the loop
\* continues, no message continues, a message is handed to marshaller.Consume
HandleReceive ==
    /\ pc = "received"
    /\ IF recv.err
       THEN /\ log' = Err(log, "Error during message receive: %+v", 0)
            /\ pc' = "receive"
            /\ UNCHANGED consumed
       ELSE IF recv.msg = 0
       THEN /\ pc' = "receive"
            /\ UNCHANGED << log, consumed >>
       ELSE /\ consumed' = Append(consumed, recv.msg)
            /\ pc' = "consuming"
            /\ UNCHANGED log
    /\ UNCHANGED << config, writer, lOut, calls, rulesErr, filters, exitCode,
                    exitAt, iter, recv, received, consumeErr >>

\* AuditWriter.Write: the sink fails sinkFailures consecutive writes
Write(w, sinkFailures) == IF sinkFailures >= w.attempts THEN "DeliveryError" ELSE "nil"

\* marshaller.Consume(msg): the record completes an event, which is flushed to
\* the writer, or it does not; what the writer reports is surfaced to the caller
Consume(w, flush, sinkFailures) == IF flush THEN Write(w, sinkFailures) ELSE "nil"

\* Consume returns to the loop, which uses no result of the call
ConsumeReturn ==
    /\ pc = "consuming"
    /\ \E flush \in BOOLEAN, sinkFailures \in 0..writer.attempts :
          consumeErr' = Consume(writer, flush, sinkFailures)
    /\ pc' = "receive"
    /\ UNCHANGED << config, writer, lOut, calls, rulesErr, filters, log, exitCode,
                    exitAt, iter, recv, received, consumed >>

Next ==
    \/ ParseFlags
    \/ LoadConfig
    \/ MainCreateOutput
    \/ MainSetRules
    \/ MainNewNetlinkClient
    \/ MainCreateFilters
    \/ Receive
    \/ HandleReceive
    \/ ConsumeReturn

Spec == Init /\ [][Next]_vars

---------------------------------------------------------------------------
(* createFilters on its own: main has reached the call of createFilters with  *)
(* stdout as its output and one rule installed, and `filters` is any value of *)
(* FilterConfigs.                                                             *)

StdoutOnly == [syslog |-> [enabled |-> FALSE, attempts |-> 3],
               file |-> [enabled |-> FALSE, attempts |-> 0, mode |-> 0],
               stdout |-> [enabled |-> TRUE, attempts |-> 3]]

OneRule == << <<"-", "w", " ", "x">> >>

InitFilters ==
    /\ pc = "createFilters"
    /\ config \in [output : {StdoutOnly}, rules : {OneRule}, filters : FilterConfigs]
    /\ writer = createOutput(StdoutOnly, TRUE, "ok").writer
    /\ lOut = createOutput(StdoutOnly, TRUE, "ok").lo
    /\ calls = setRules(OneRule, {}, << >>, "stderr").calls
    /\ rulesErr = NilErr
    /\ filters = << >>
    /\ log = setRules(OneRule, {}, << >>, "stderr").log
    /\ exitCode = 0
    /\ exitAt = "none"
    /\ iter = 0
    /\ recv = NoRecv
    /\ received = << >>
    /\ consumed = << >>
    /\ consumeErr = "nil"

NextFilters == MainCreateFilters

SpecFilters == InitFilters /\ [][NextFilters]_vars

---------------------------------------------------------------------------
(* Properties *)

Last(seq) == seq[Len(seq)]

NumEnabled(out) ==
    (IF out.syslog.enabled THEN 1 ELSE 0) + (IF out.file.enabled THEN 1 ELSE 0)
        + (IF out.stdout.enabled THEN 1 ELSE 0)

InLoop == pc \in {"receive", "received", "consuming"}

\* createOutput has returned
AfterCreateOutput ==
    \/ pc \in {"setRules", "netlink", "createFilters"}
    \/ InLoop
    \/ pc = "exited" /\ exitAt \notin {"flag", "loadConfig"}

\* setRules has returned
AfterSetRules ==
    \/ pc \in {"netlink", "createFilters"}
    \/ InLoop
    \/ pc = "exited" /\ exitAt \notin {"flag", "loadConfig", "createOutput"}

\* createFilters has returned or panicked
AfterCreateFilters == InLoop \/ (pc = "exited" /\ exitAt = "createFilters")

\* C1: createOutput returns a writer only when exactly one of the three outputs
\* is enabled: with no output or with two or more enabled it returns an error
\* and no writer, whatever the constructions of the outputs did.
C1_ExactlyOneOutput ==
    AfterCreateOutput =>
        /\ NumEnabled(config.output) # 1 =>
              writer = NilWriter /\ pc = "exited" /\ exitAt = "createOutput"
        /\ pc # "exited" \/ exitAt # "createOutput" =>
              writer # NilWriter /\ NumEnabled(config.output) = 1

\* Two outputs are enabled, both were constructed, and createOutput refused them.
C1_Witness ==
    /\ pc = "exited" /\ exitAt = "createOutput"
    /\ NumEnabled(config.output) = 2
    /\ Last(log).text = "Only one output can be enabled at a time"
    /\ writer = NilWriter

\* The invocations auditctl is to receive for a rule list: -D, then every
\* non-empty rule in order, split at white space.
NonEmptyRules(rules) == SelectSeq(rules, LAMBDA v : v # << >>)
ExpectedArgvs(rules) ==
    << FlushArgv >> \o [i \in 1..Len(NonEmptyRules(rules)) |-> RuleArgv(NonEmptyRules(rules)[i])]
Argvs(cs) == [i \in 1..Len(cs) |-> cs[i].argv]

\* C2: setRules invokes auditctl with -D first and then once per non-empty rule,
\* in configuration order, with the rule's white-space-split arguments; the
\* first invocation that fails is the last one, setRules then returns an error,
\* and main never enters the receive loop.
C2_RulesInOrderStopAtFailure ==
    AfterSetRules =>
        /\ Len(calls) >= 1
        /\ Argvs(calls) = SubSeq(ExpectedArgvs(config.rules), 1, Len(calls))
        /\ \A i \in 1..(Len(calls) - 1) : ~calls[i].failed
        /\ Last(calls).failed <=> rulesErr.kind \in {"flush", "rule"}
        /\ rulesErr.kind = "nil" => Argvs(calls) = ExpectedArgvs(config.rules)
        /\ rulesErr.kind = "rule" =>
              /\ rulesErr.rule \in 1..Len(config.rules)
              /\ config.rules[rulesErr.rule] # << >>
              /\ Len(calls) = 1 + Len(NonEmptyRules(SubSeq(config.rules, 1, rulesErr.rule)))
        /\ rulesErr.kind # "nil" =>
              pc = "exited" /\ exitAt = "setRules" /\ iter = 0 /\ received = << >>

\* The first of two non-empty rules failed: the second was not invoked.
C2_Witness ==
    /\ pc = "exited" /\ exitAt = "setRules"
    /\ Len(NonEmptyRules(config.rules)) = 2
    /\ rulesErr.kind = "rule"
    /\ Len(calls) = 2
    /\ calls[2].failed

StartupSteps == {"flag", "loadConfig", "createOutput", "setRules", "netlink", "createFilters"}

\* C3: every configuration or startup failure ends the daemon with exit code 1,
\* and exit code 2 comes only from a runtime fatal error after the receive loop
\* has started.
C3_StartupFailureExitsOne ==
    pc = "exited" =>
        /\ exitAt \in StartupSteps => exitCode = 1
        /\ exitCode = 2 => exitAt \notin StartupSteps

WellFormedMessageType(v) ==
    v.t \in {"absent", "int"} \/ (v.t = "string" /\ ~ParseUint(v.s).err)
WellFormedSyscall(v) == v.t \in {"absent", "int", "string"}
WellFormedRegex(v) == v.t = "absent" \/ (v.t = "string" /\ RegexCompiles(v.s))

\* A filter object as the spec describes it: a map whose keys, where present,
\* have a supported type and value.
WellFormedEntry(e) ==
    /\ e.isMap
    /\ WellFormedMessageType(e.message_type)
    /\ WellFormedSyscall(e.syscall)
    /\ WellFormedRegex(e.regex)

WellFormedFilters(fs) ==
    fs.shape = "list" /\ \A i \in 1..Len(fs.items) : WellFormedEntry(fs.items[i])

\* C4: createFilters accepts a filter entry without the regex key: startup does
\* not fail and the returned list holds that filter with no regex.
C4_RegexOptional ==
    ( /\ AfterCreateFilters
      /\ WellFormedFilters(config.filters)
      /\ Len(config.filters.items) >= 1
      /\ Last(config.filters.items).regex = Absent
      /\ Last(config.filters.items).message_type.t = "int"
      /\ Last(config.filters.items).message_type.i \in 1..65535
      /\ Last(config.filters.items).syscall.t # "absent" )
    =>  /\ pc # "exited"
        /\ Len(filters) = Len(config.filters.items)
        /\ Last(filters).Regex = NilRegex

\* C5: a `filters` value that is present but is not a list of well-formed
\* filter objects ends the daemon before the receive loop.
C5_InvalidFiltersFatal ==
    (config.filters.shape # "nil" /\ ~WellFormedFilters(config.filters)) => ~InLoop

LogsReceiveError(before, after) ==
    /\ Len(after) = Len(before) + 1
    /\ SubSeq(after, 1, Len(before)) = before
    /\ Last(after).level = "err"
    /\ Last(after).text = "Error during message receive: %+v"

\* C6: a receive error never ends the loop: it is logged, Consume is not called
\* for that iteration and the loop returns to Receive; the same, with nothing
\* logged, when Receive returns no message.
C6_ReceiveErrorContinues ==
    [][ (pc = "received" /\ (recv.err \/ recv.msg = 0)) =>
            /\ pc' \in {"receive", "received"}
            /\ pc' = "received" => UNCHANGED vars
            /\ pc' = "receive" =>
                  /\ consumed' = consumed
                  /\ exitCode' = exitCode /\ exitAt' = exitAt
                  /\ IF recv.err THEN LogsReceiveError(log, log') ELSE log' = log ]_vars

\* Receive failed twice, both errors were logged, and the loop is back at Receive.
C6_Witness ==
    /\ pc = "receive"
    /\ iter = 2
    /\ recv.err
    /\ received = << >> /\ consumed = << >>
    /\ Len(log) >= 2
    /\ Last(log).text = "Error during message receive: %+v"
    /\ log[Len(log) - 1].text = "Error during message receive: %+v"

\* C7: when the writer exhausts its retries for an event, the failure reaches
\* the main loop and the daemon ends with exit code 2 instead of receiving on.
C7_DeliveryErrorFatal ==
    consumeErr = "DeliveryError" => pc = "exited" /\ exitCode = 2

\* C8: the loop hands every message Receive returned with no error to Consume
\* exactly once and in the order received, and a Consume call has returned
\* before the next Receive is issued.
C8_ConsumeInArrivalOrder ==
    /\ pc \in {"receive", "consuming"} => consumed = received
    /\ pc = "received" =>
          received = IF ~recv.err /\ recv.msg # 0 THEN Append(consumed, recv.msg)
                     ELSE consumed
    /\ pc = "consuming" => ~recv.err /\ recv.msg # 0 /\ Last(consumed) = recv.msg
    /\ \A i, j \in 1..Len(consumed) : i < j => consumed[i] < consumed[j]

\* The first and the third Receive returned a message, the second did not:
\* both messages were consumed, in that order.
C8_Witness ==
    /\ pc = "receive"
    /\ iter = 3
    /\ received = <<1, 3>>
    /\ consumed = <<1, 3>>

\* `filters` with every integer message_type written as its decimal string
StringForm(fs) ==
    [fs EXCEPT !.items =
        [i \in 1..Len(fs.items) |->
            IF fs.items[i].message_type.t = "int"
            THEN [fs.items[i] EXCEPT !.message_type = StrVal(Itoa(fs.items[i].message_type.i))]
            ELSE fs.items[i]]]

SomeOrder == CHOOSE o \in KeyOrders : TRUE

\* C9: createFilters treats the integer n and the decimal string of n alike as
\* message_type: both are rejected, or both are accepted with the same 16-bit
\* MessageType, which is n for n in 0..65535.
C9_MessageTypeFormsAgree ==
    (AfterCreateFilters /\ config.filters.shape = "list") =>
        LET alt == createFilters(StringForm(config.filters), SomeOrder, << >>, lOut)
        IN  /\ (alt.panic # "none") <=> (pc = "exited")
            /\ alt.panic = "none" => alt.filters = filters
            /\ pc # "exited" =>
                  \A i \in 1..Len(filters) :
                      LET v == config.filters.items[i].message_type
                      IN  (v.t = "int" /\ v.i \in 0..65535) => filters[i].MessageType = v.i

AllEmpty(rules) == Len(rules) > 0 /\ \A i \in 1..Len(rules) : rules[i] = << >>

\* C10: setRules fails with "No audit rules found." exactly when the rule list
\* is empty and auditctl -D has run successfully; a non-empty list of empty
\* rules makes setRules succeed with no invocation that adds a rule.
C10_NoRulesAfterFlush ==
    AfterSetRules =>
        /\ rulesErr.kind = "norules" <=> (Len(config.rules) = 0 /\ ~calls[1].failed)
        /\ rulesErr.kind = "norules" => calls = << Call(FlushArgv, FALSE) >>
        /\ AllEmpty(config.rules) =>
              /\ Len(calls) = 1
              /\ ~calls[1].failed => rulesErr.kind = "nil" /\ exitAt # "setRules"

\* The rule list is empty, -D succeeded, and setRules reported that no rules
\* were found.
C10_Witness ==
    /\ pc = "exited" /\ exitAt = "setRules"
    /\ config.rules = << >>
    /\ rulesErr.kind = "norules"
    /\ calls = << Call(FlushArgv, FALSE) >>
    /\ Last(log).text = "norules"

===========================================================================
